---- MODULE Spec2Model ----
\* cfn-lsp: the session state machine (src/src/handler.rs), the main loop that
\* drives it (src/src/main.rs) and the lock-guarded Server variant
\* (src/src/server.rs).
EXTENDS Integers, Sequences, FiniteSets, TLC

\* ------------------------------------------------------------------ bounds
\* Longest batch of requests handed to the handler (0 = the empty array).
MaxBatch == 2
\* Longest batch of requests handed to a Server thread.
MaxSrvBatch == 1
\* Largest document version carried by a didOpen notification.
MaxVersion == 1

\* ------------------------------------------------------ Option<T> encoding
None == <<>>
Some(x) == <<x>>

\* --------------------------------------------------------- envelope model
\* RequestId: String(String) | Number(u32) | Null
RequestIds == {[Number |-> 1], [String |-> "a"], [Null |-> TRUE]}

\* initialise::Params values a client may send
InitParams == {"p1", "p2"}
\* document URIs
Uris == {"file:///a.yaml"}

Version == "2.0"

\* RequestMethod: Initialise(params) | Shutdown | PullDiagnostics(params)
RequestMethod ==
    {[name |-> "initialize", params |-> p] : p \in InitParams}
    \cup {[name |-> "shutdown"]}
    \cup {[name |-> "textDocument/diagnostic", params |-> [uri |-> u]] : u \in Uris}

\* NotificationMethod
NotificationMethod ==
    {[name |-> "exit"], [name |-> "initialized"],
     [name |-> "textDocument/didChange"], [name |-> "textDocument/didClose"]}
    \cup {[name |-> "textDocument/didOpen", params |-> [uri |-> u, version |-> v]] :
            u \in Uris, v \in 0..MaxVersion}
    \cup {[name |-> "textDocument/didSave", params |-> [uri |-> u]] : u \in Uris}
    \cup {[name |-> "textDocument/publishDiagnostics",
           params |-> [uri |-> u, version |-> None, diagnostics |-> <<>>]] : u \in Uris}

Request == [jsonrpc : {Version}, method : RequestMethod, id : RequestIds]

Notification == [jsonrpc : {Version}, method : NotificationMethod]

\* ErrorCode::code
ErrorCode_code(code) ==
    CASE code = "ParseError" -> -32700
      [] code = "InvalidRequest" -> -32600
      [] code = "MethodNotFound" -> -32601
      [] code = "InvalidParams" -> -32602
      [] code = "Internal" -> -32603
      [] code = "ServerNotInitialised" -> -32002
      [] code = "ServerAlreadyInitialised" -> -32003

\* Error::new
Error_new(code, msg, data) == [code |-> code, message |-> msg, data |-> data]

\* SuccessResponse::new wrapped in Response::Success
SuccessResponse_new(id, result) ==
    [variant |-> "Success", jsonrpc |-> Version, result |-> result, id |-> id]

\* mutant of ErrorResponse::new: the error response falls back to the null id
ErrorResponse_new_null_id(id, error) ==
    [variant |-> "Error", jsonrpc |-> Version, error |-> error, id |-> [Null |-> TRUE]]

\* ErrorResponse::new wrapped in Response::Error
ErrorResponse_new(id, error) ==
    [variant |-> "Error", jsonrpc |-> Version, error |-> error, id |-> id]

\* Response::Batch
Response_Batch(responses) == [variant |-> "Batch", responses |-> responses]

\* ResponseResult::Null
ResponseResult_Null == [variant |-> "Null"]

CARGO_PKG_NAME == "cfn-lsp"

\* initialise::Result::default()
initialise_Result_default ==
    [capabilities |->
        [positionEncoding |-> "utf-16",
         textDocumentSync |-> [openClose |-> TRUE, change |-> 1],
         diagnosticProvider |->
            [identifier |-> CARGO_PKG_NAME,
             interFileDependencies |-> FALSE,
             workspaceDiagnostics |-> FALSE]],
     serverInfo |-> [name |-> CARGO_PKG_NAME, version |-> "CARGO_PKG_VERSION"]]

\* ResponseResult::Initialise
ResponseResult_Initialise(result) == [variant |-> "Initialise", value |-> result]

\* mutant of diagnostic::pull::Result::full: reports an unchanged result
pull_Result_full_unchanged(result_id, items) ==
    [kind |-> "unchanged", result_id |-> result_id]

\* diagnostic::pull::Result::full
pull_Result_full(result_id, items) ==
    [kind |-> "full", result_id |-> result_id, items |-> items]

\* diagnostic::pull::Result::unchanged
pull_Result_unchanged(result_id) == [kind |-> "unchanged", result_id |-> result_id]

\* ResponseResult::PullDiagnostics
ResponseResult_PullDiagnostics(result) == [variant |-> "PullDiagnostics", value |-> result]

\* diagnostic::publish::Params::new
publish_Params_new(uri, version, diagnostics) ==
    [uri |-> uri, version |-> version, diagnostics |-> diagnostics]

\* Notification::new
Notification_new(method) == [jsonrpc |-> Version, method |-> method]

\* Message variants
Message_Request(r) == [kind |-> "Request", request |-> r]
Message_BatchRequest(rs) == [kind |-> "BatchRequest", requests |-> rs]
Message_Notification(n) == [kind |-> "Notification", notification |-> n]
Message_Response(r) == [kind |-> "Response", response |-> r]

\* ------------------------------------------------------- Lint capability
\* What a call of linter.lint can do, whatever the URI: answer
\* Ok(diagnostics) or Err(_), the two arms handler.rs matches, or panic, as
\* CfnLinter does when cfn-lint cannot be run (Result::unwrap in run_linter),
\* when its output does not parse (unwrap in lint) and on a code that starts
\* with none of E, W, I (todo!() in parser::code).
LintOutcomes ==
    {[ok |-> TRUE, panic |-> FALSE, diagnostics |-> <<>>],
     [ok |-> TRUE, panic |-> FALSE, diagnostics |-> <<"E3001">>],
     [ok |-> FALSE, panic |-> FALSE],
     [ok |-> FALSE, panic |-> TRUE]}

\* threads that share one Server (it is Clone over Arc<Mutex<State>>)
Threads == {"t1", "t2"}

\* ---------------------------------------------------------- session state
\* enum State { Uninitialised, Initialised(initialise::Params), Shutdown }
State_Uninitialised == [tag |-> "Uninitialised"]
State_Initialised(params) == [tag |-> "Initialised", params |-> params]
State_Shutdown == [tag |-> "Shutdown"]

VARIABLES
    state,      \* MessageHandler.state
    pc,         \* position of main's loop: "read", "handle", "write", or how
                \* the process ended: "exited", "panicked"
    message,    \* Option<Message>: the message read in this iteration
    readError,  \* Option<ReadError>: the error the read of this iteration
                \* ended with
    response,   \* Option<Message>: what handler.handle returned
    prev,       \* MessageHandler.state when handle was entered
    lints,      \* calls of linter.lint made by this iteration's handle
    calls,      \* per request of the message: what linter.lint did when the
                \* request called it, NoCall when it did not
    srvState,   \* Server.state (the value behind the mutex)
    srvPc,      \* per thread: "idle", "lock", "locked", "done", or where it
                \* panicked: "todo" (todo!()), "unwrap" (Result::unwrap)
    srvMsg,     \* per thread: Option<Message>, the message being handled
    srvIdx,     \* per thread: index of the request being handled
    srvSnap,    \* per thread: the clone of the state taken under the lock
    srvResps,   \* per thread: responses collected so far
    srvExited,  \* Server::exit ran
    input,      \* bytes the client has written and the server has not read,
                \* as a sequence of tokens
    eof,        \* the client has closed its end of the channel
    sent,       \* the frames the client has written, in order
    buffer,     \* Reader.buffer
    consumed,   \* what the current or last call of Reader::read has taken
                \* from the channel
    nread,      \* calls of Reader::read that have returned
    result,     \* Option<Result<Message, ReadError>>: what the last call of
                \* Reader::read returned
    ioPc,       \* position of main's loop over the channel: "read",
                \* "dispatch", "write", "exited", "panicked"
    ioState,    \* MessageHandler.state of that loop
    ioResponse, \* Option<Message>: the response of the current iteration
    output,     \* calls of Writer::write, in order: the iteration, the
                \* response and how many of its four writes succeeded
    decIn,      \* Option<JSON text>: the body handed to Reader::parse
    decOut,     \* Option<Result<Message, ReadError>>: what parse returned
    lintOutput, \* Option<finding>: what cfn-lint printed for a template
    lintResult  \* Option: what CfnLinter::lint made of it

handlerVars == <<state, pc, message, readError, response, prev, lints, calls>>
serverVars == <<srvState, srvPc, srvMsg, srvIdx, srvSnap, srvResps, srvExited>>
ioVars == <<input, eof, sent, buffer, consumed, nread, result, ioPc, ioState,
            ioResponse, output>>
decVars == <<decIn, decOut>>
lintVars == <<lintOutput, lintResult>>
vars == <<state, pc, message, readError, response, prev, lints, calls,
          srvState, srvPc, srvMsg, srvIdx, srvSnap, srvResps, srvExited,
          input, eof, sent, buffer, consumed, nread, result, ioPc, ioState,
          ioResponse, output, decIn, decOut, lintOutput, lintResult>>

\* ------------------------------------------------ src/src/handler.rs
\* Each handler operator returns [state, response, lints, panic]: the state
\* the handler leaves behind, the Response it returns, the number of calls of
\* linter.lint it made and whether it panicked instead of returning.

\* mutant of uninitialised_request: the wrong error code
uninitialised_request_invalid(id) ==
    ErrorResponse_new(id, Error_new("InvalidRequest", "Server not initialised", None))

\* fn uninitialised_request
uninitialised_request(id) ==
    ErrorResponse_new(id, Error_new("ServerNotInitialised", "Server not initialised", None))

\* fn already_initialised
already_initialised(id) ==
    ErrorResponse_new(id,
        Error_new("ServerAlreadyInitialised", "Server already initialised", None))

\* mutant of request_post_shutdown: answers as if never initialised
request_post_shutdown_uninitialised(id) ==
    ErrorResponse_new(id, Error_new("ServerNotInitialised", "Server not initialised", None))

\* fn request_post_shutdown
request_post_shutdown(id) ==
    ErrorResponse_new(id, Error_new("InvalidRequest", "Server has been shutdown", None))

\* mutant of MessageHandler::initialise: the state assignment is missing
initialise_keeps_state(self, id, params) ==
    [state |-> self,
     response |-> SuccessResponse_new(id, ResponseResult_Initialise(initialise_Result_default)),
     lints |-> 0, panic |-> FALSE]

\* MessageHandler::initialise
initialise(self, id, params) ==
    [state |-> State_Initialised(params),
     response |-> SuccessResponse_new(id, ResponseResult_Initialise(initialise_Result_default)),
     lints |-> 0, panic |-> FALSE]

\* mutant of MessageHandler::shutdown: resets the session instead of ending it
shutdown_resets(self, id) ==
    [state |-> State_Uninitialised,
     response |-> SuccessResponse_new(id, ResponseResult_Null),
     lints |-> 0, panic |-> FALSE]

\* mutant of MessageHandler::shutdown: the state assignment is missing
shutdown_keeps_state(self, id) ==
    [state |-> self,
     response |-> SuccessResponse_new(id, ResponseResult_Null),
     lints |-> 0, panic |-> FALSE]

\* MessageHandler::shutdown
shutdown(self, id) ==
    [state |-> State_Shutdown,
     response |-> SuccessResponse_new(id, ResponseResult_Null),
     lints |-> 0, panic |-> FALSE]

\* mutant of MessageHandler::pull_diagnostics: answering a pull ends the session
pull_diagnostics_shuts_down(self, id, params, lint) ==
    [state |-> State_Shutdown,
     response |->
        IF lint.ok
        THEN SuccessResponse_new(id,
                ResponseResult_PullDiagnostics(pull_Result_full("result", lint.diagnostics)))
        ELSE ErrorResponse_new(id,
                Error_new("Internal", "Failed to generate diagnostics", None)),
     lints |-> 1, panic |-> lint.panic]

\* MessageHandler::pull_diagnostics; lint is what self.linter.lint answers
pull_diagnostics(self, id, params, lint) ==
    [state |-> self,
     response |->
        IF lint.ok
        THEN SuccessResponse_new(id,
                ResponseResult_PullDiagnostics(pull_Result_full("result", lint.diagnostics)))
        ELSE ErrorResponse_new(id,
                Error_new("Internal", "Failed to generate diagnostics", None)),
     lints |-> 1, panic |-> lint.panic]

\* mutant of MessageHandler::publish_diagnostics: the version is dropped
publish_diagnostics_no_version(uri, version, lint) ==
    IF lint.ok
    THEN Some(Notification_new(
            [name |-> "textDocument/publishDiagnostics",
             params |-> publish_Params_new(uri, None, lint.diagnostics)]))
    ELSE None

\* MessageHandler::publish_diagnostics: Option<Notification>
publish_diagnostics(uri, version, lint) ==
    IF lint.ok
    THEN Some(Notification_new(
            [name |-> "textDocument/publishDiagnostics",
             params |-> publish_Params_new(uri, version, lint.diagnostics)]))
    ELSE None

\* mutant of MessageHandler::handle_request: a textDocument/diagnostic
\* request is carried out after shutdown as well
handle_request_pull_any_state(self, request, lint) ==
    CASE self.tag = "Uninitialised" ->
            IF request.method.name = "initialize"
            THEN initialise(self, request.id, request.method.params)
            ELSE [state |-> self, response |-> uninitialised_request(request.id),
                  lints |-> 0, panic |-> FALSE]
      [] self.tag = "Shutdown" ->
            IF request.method.name = "textDocument/diagnostic"
            THEN pull_diagnostics(self, request.id, request.method.params, lint)
            ELSE [state |-> self, response |-> request_post_shutdown(request.id),
                  lints |-> 0, panic |-> FALSE]
      [] self.tag = "Initialised" ->
            CASE request.method.name = "shutdown" -> shutdown(self, request.id)
              [] request.method.name = "textDocument/diagnostic" ->
                    pull_diagnostics(self, request.id, request.method.params, lint)
              [] request.method.name = "initialize" ->
                    [state |-> self, response |-> already_initialised(request.id),
                     lints |-> 0, panic |-> FALSE]

\* mutant of MessageHandler::handle_request: a second initialize is carried
\* out like the first
handle_request_reinitialises(self, request, lint) ==
    CASE self.tag = "Uninitialised" ->
            IF request.method.name = "initialize"
            THEN initialise(self, request.id, request.method.params)
            ELSE [state |-> self, response |-> uninitialised_request(request.id),
                  lints |-> 0, panic |-> FALSE]
      [] self.tag = "Shutdown" ->
            [state |-> self, response |-> request_post_shutdown(request.id),
             lints |-> 0, panic |-> FALSE]
      [] self.tag = "Initialised" ->
            CASE request.method.name = "shutdown" -> shutdown(self, request.id)
              [] request.method.name = "textDocument/diagnostic" ->
                    pull_diagnostics(self, request.id, request.method.params, lint)
              [] request.method.name = "initialize" ->
                    initialise(self, request.id, request.method.params)

\* MessageHandler::handle_request
handle_request(self, request, lint) ==
    CASE self.tag = "Uninitialised" ->
            IF request.method.name = "initialize"
            THEN initialise(self, request.id, request.method.params)
            ELSE [state |-> self, response |-> uninitialised_request(request.id),
                  lints |-> 0, panic |-> FALSE]
      [] self.tag = "Shutdown" ->
            [state |-> self, response |-> request_post_shutdown(request.id),
             lints |-> 0, panic |-> FALSE]
      [] self.tag = "Initialised" ->
            CASE request.method.name = "shutdown" -> shutdown(self, request.id)
              [] request.method.name = "textDocument/diagnostic" ->
                    pull_diagnostics(self, request.id, request.method.params, lint)
              [] request.method.name = "initialize" ->
                    [state |-> self, response |-> already_initialised(request.id),
                     lints |-> 0, panic |-> FALSE]

\* mutant of the batch iterator: responses are collected newest first
RECURSIVE batch_map_reversed(_, _, _, _)
batch_map_reversed(acc, requests, lint, i) ==
    IF i > Len(requests) \/ acc.panic
    THEN acc
    ELSE LET r == handle_request(acc.state, requests[i], lint[i])
         IN batch_map_reversed([state |-> r.state,
                                responses |-> <<r.response>> \o acc.responses,
                                lints |-> acc.lints + r.lints,
                                panic |-> r.panic],
                               requests, lint, i + 1)

\* mutant of the batch iterator: every element is dispatched against the
\* state the batch started in
RECURSIVE batch_map_snapshot(_, _, _, _)
batch_map_snapshot(acc, requests, lint, i) ==
    IF i > Len(requests) \/ acc.panic
    THEN acc
    ELSE LET r == handle_request(acc.state, requests[i], lint[i])
         IN batch_map_snapshot([state |-> acc.state,
                                responses |-> Append(acc.responses, r.response),
                                lints |-> acc.lints + r.lints,
                                panic |-> r.panic],
                               requests, lint, i + 1)

\* mutant of the batch iterator: the first error response ends the batch
RECURSIVE batch_map_stops_on_error(_, _, _, _)
batch_map_stops_on_error(acc, requests, lint, i) ==
    IF i > Len(requests) \/ acc.panic
        \/ (acc.responses # <<>> /\ acc.responses[Len(acc.responses)].variant = "Error")
    THEN acc
    ELSE LET r == handle_request(acc.state, requests[i], lint[i])
         IN batch_map_stops_on_error([state |-> r.state,
                                      responses |-> Append(acc.responses, r.response),
                                      lints |-> acc.lints + r.lints,
                                      panic |-> r.panic],
                                     requests, lint, i + 1)

\* the iterator of MessageHandler::handle_request_batch: requests i..Len are
\* still to map, acc holds the state and the responses collected so far; a
\* panic of an element unwinds through the iterator
RECURSIVE batch_map(_, _, _, _)
batch_map(acc, requests, lint, i) ==
    IF i > Len(requests) \/ acc.panic
    THEN acc
    ELSE LET r == handle_request(acc.state, requests[i], lint[i])
         IN batch_map([state |-> r.state,
                       responses |-> Append(acc.responses, r.response),
                       lints |-> acc.lints + r.lints,
                       panic |-> r.panic],
                      requests, lint, i + 1)

\* MessageHandler::handle_request_batch
handle_request_batch(self, requests, lint) ==
    LET r == batch_map([state |-> self, responses |-> <<>>, lints |-> 0, panic |-> FALSE],
                       requests, lint, 1)
    IN [state |-> r.state, response |-> Response_Batch(r.responses), lints |-> r.lints,
        panic |-> r.panic]

\* MessageHandler::exit: std::process::exit(0)
exit == "exited"

\* where the process stands when a handler panicked
panicked == "panicked"

\* mutant of MessageHandler::handle_notification: didOpen and didSave publish
\* diagnostics in every state
handle_notification_any_state(self, notification, lint) ==
    CASE notification.method.name = "textDocument/didOpen" ->
            [response |->
                LET n == publish_diagnostics(notification.method.params.uri,
                            Some(notification.method.params.version), lint)
                IN IF n = None THEN None ELSE Some(Message_Notification(n[1])),
             lints |-> 1, pc |-> IF lint.panic THEN panicked ELSE "write"]
      [] notification.method.name = "textDocument/didSave" ->
            [response |->
                LET n == publish_diagnostics(notification.method.params.uri, None, lint)
                IN IF n = None THEN None ELSE Some(Message_Notification(n[1])),
             lints |-> 1, pc |-> IF lint.panic THEN panicked ELSE "write"]
      [] notification.method.name = "exit" /\ self.tag # "Initialised" ->
            [response |-> None, lints |-> 0, pc |-> exit]
      [] OTHER -> [response |-> None, lints |-> 0, pc |-> "write"]

\* mutant of MessageHandler::handle_notification: a notification is answered
\* like a request
handle_notification_responds(self, notification, lint) ==
    [response |-> Some(Message_Response(
                    SuccessResponse_new([Null |-> TRUE], ResponseResult_Null))),
     lints |-> 0, pc |-> "write"]

\* MessageHandler::handle_notification: [response, lints, pc]; pc is where
\* the process stands afterwards
handle_notification(self, notification, lint) ==
    CASE self.tag \in {"Uninitialised", "Shutdown"} ->
            IF notification.method.name = "exit"
            THEN [response |-> None, lints |-> 0, pc |-> exit]
            ELSE [response |-> None, lints |-> 0, pc |-> "write"]
      [] self.tag = "Initialised" ->
            CASE notification.method.name = "textDocument/didOpen" ->
                    [response |->
                        LET n == publish_diagnostics(notification.method.params.uri,
                                    Some(notification.method.params.version), lint)
                        IN IF n = None THEN None ELSE Some(Message_Notification(n[1])),
                     lints |-> 1, pc |-> IF lint.panic THEN panicked ELSE "write"]
              [] notification.method.name = "textDocument/didSave" ->
                    [response |->
                        LET n == publish_diagnostics(notification.method.params.uri, None, lint)
                        IN IF n = None THEN None ELSE Some(Message_Notification(n[1])),
                     lints |-> 1, pc |-> IF lint.panic THEN panicked ELSE "write"]
              [] OTHER -> [response |-> None, lints |-> 0, pc |-> "write"]

\* MessageHandler::handle: [state, response, lints, pc]
handle(self, msg, lint) ==
    CASE msg.kind = "Request" ->
            LET r == handle_request(self, msg.request, lint[1])
            IN IF r.panic
               THEN [state |-> r.state, response |-> None, lints |-> r.lints, pc |-> panicked]
               ELSE [state |-> r.state, response |-> Some(Message_Response(r.response)),
                     lints |-> r.lints, pc |-> "write"]
      [] msg.kind = "BatchRequest" ->
            LET r == handle_request_batch(self, msg.requests, lint)
            IN IF r.panic
               THEN [state |-> r.state, response |-> None, lints |-> r.lints, pc |-> panicked]
               ELSE [state |-> r.state, response |-> Some(Message_Response(r.response)),
                     lints |-> r.lints, pc |-> "write"]
      [] msg.kind = "Notification" ->
            LET r == handle_notification(self, msg.notification, lint[1])
            IN [state |-> self,
                response |-> IF r.pc = panicked THEN None ELSE r.response,
                lints |-> r.lints, pc |-> r.pc]
      [] msg.kind = "Response" ->
            [state |-> self, response |-> None, lints |-> 0, pc |-> "write"]

\* ------------------------------------------------ src/src/main.rs
\* sequences of requests of length 0..n
RECURSIVE SeqsUpTo(_, _)
SeqsUpTo(S, n) ==
    IF n = 0 THEN {<<>>}
    ELSE LET shorter == SeqsUpTo(S, n - 1)
         IN shorter \cup {Append(q, x) : q \in {t \in shorter : Len(t) = n - 1}, x \in S}

\* Responses a client may send to the server
IncomingResponses == {SuccessResponse_new([Number |-> 1], ResponseResult_Null)}

\* what reader::read can hand to the loop as Ok(message)
Messages ==
    {Message_Request(r) : r \in Request}
    \cup {Message_BatchRequest(rs) : rs \in SeqsUpTo(Request, MaxBatch)}
    \cup {Message_Notification(n) : n \in Notification}
    \cup {Message_Response(r) : r \in IncomingResponses}

\* one answer of the linter for each request a message can hold
LintSlots(msg) == IF msg.kind = "BatchRequest" /\ Len(msg.requests) > 1
                  THEN Len(msg.requests) ELSE 1

\* no call of linter.lint
NoCall == [ok |-> FALSE, panic |-> FALSE, called |-> FALSE]

\* did handle call linter.lint for the i-th request of msg (for msg itself
\* when it is a single request or a notification)
Called(self, msg, lint, i) ==
    CASE msg.kind = "Request" -> handle_request(self, msg.request, lint[1]).lints = 1
      [] msg.kind = "BatchRequest" ->
            /\ i <= Len(msg.requests)
            /\ LET before == batch_map([state |-> self, responses |-> <<>>, lints |-> 0,
                                        panic |-> FALSE],
                                       SubSeq(msg.requests, 1, i - 1), lint, 1)
               IN /\ ~before.panic
                  /\ handle_request(before.state, msg.requests[i], lint[i]).lints = 1
      [] msg.kind = "Notification" ->
            handle_notification(self, msg.notification, lint[1]).lints = 1
      [] msg.kind = "Response" -> FALSE

\* ReadError values
ReadError_IncompleteMessage == [variant |-> "IncompleteMessage"]
ReadError_MissingContentLength == [variant |-> "MissingContentLength"]
ReadError_InvalidContentType == [variant |-> "InvalidContentType"]
ReadError_InvalidRequest(id, error_code) ==
    [variant |-> "InvalidRequest", id |-> id, error_code |-> error_code]
ReadError_Internal == [variant |-> "Internal"]

\* the errors a call of the reader can hand to main
ReadErrors ==
    {ReadError_MissingContentLength, ReadError_InvalidContentType, ReadError_Internal}
    \cup {ReadError_InvalidRequest(id, code) :
            id \in RequestIds, code \in {"InvalidRequest", "ParseError"}}

\* Result<Message, ReadError>
Ok(msg) == [ok |-> TRUE, value |-> msg]
Err(error) == [ok |-> FALSE, error |-> error]

\* Response::from(ReadError), which main.rs calls
Response_from(error) ==
    CASE error.variant = "InvalidRequest" ->
            ErrorResponse_new(error.id, Error_new(error.error_code, "Invalid request", None))
      [] OTHER ->
            ErrorResponse_new([Null |-> TRUE], Error_new("InvalidRequest", "Malformed headers", None))

\* MessageHandler::new and Server::default
Init ==
    /\ state = State_Uninitialised
    /\ pc = "read"
    /\ message = None
    /\ readError = None
    /\ response = None
    /\ prev = State_Uninitialised
    /\ lints = 0
    /\ calls = <<>>
    /\ srvState = State_Uninitialised
    /\ srvPc = [t \in Threads |-> "idle"]
    /\ srvMsg = [t \in Threads |-> None]
    /\ srvIdx = [t \in Threads |-> 0]
    /\ srvSnap = [t \in Threads |-> State_Uninitialised]
    /\ srvResps = [t \in Threads |-> <<>>]
    /\ srvExited = FALSE
    /\ input = <<>>
    /\ eof = FALSE
    /\ sent = <<>>
    /\ buffer = <<>>
    /\ consumed = <<>>
    /\ nread = 0
    /\ result = None
    /\ ioPc = "read"
    /\ ioState = State_Uninitialised
    /\ ioResponse = None
    /\ output = <<>>
    /\ decIn = None
    /\ decOut = None
    /\ lintOutput = None
    /\ lintResult = None

\* main: let message = reader::read(&mut input): Ok(message) or Err(error)
Read ==
    /\ pc = "read"
    /\ \/ \E m \in Messages : message' = Some(m) /\ readError' = None
       \/ \E e \in ReadErrors : message' = None /\ readError' = Some(e)
    /\ pc' = "handle"
    /\ UNCHANGED <<state, response, prev, lints, calls>>
    /\ UNCHANGED serverVars
    /\ UNCHANGED ioVars
    /\ UNCHANGED <<decVars, lintVars>>

\* main: match message { Ok(message) => handler.handle(message),
\*                       Err(error) => Some(Message::Response(Response::from(error))) }
Handle ==
    /\ pc = "handle"
    /\ IF message # None
       THEN \E lint \in [1..LintSlots(message[1]) -> LintOutcomes] :
                LET r == handle(state, message[1], lint)
                IN /\ state' = r.state
                   /\ response' = r.response
                   /\ lints' = r.lints
                   /\ pc' = r.pc
                   /\ calls' = [i \in 1..LintSlots(message[1]) |->
                                  IF Called(state, message[1], lint, i) THEN lint[i] ELSE NoCall]
       ELSE /\ response' = Some(Message_Response(Response_from(readError[1])))
            /\ pc' = "write"
            /\ UNCHANGED <<state, lints, calls>>
    /\ prev' = state
    /\ UNCHANGED <<message, readError>>
    /\ UNCHANGED serverVars
    /\ UNCHANGED ioVars
    /\ UNCHANGED <<decVars, lintVars>>

\* main: if let Some(response) = response { writer::write(..) }, then the
\* loop drops message and response and starts the next iteration
Write ==
    /\ pc = "write"
    /\ pc' = "read"
    /\ message' = None
    /\ readError' = None
    /\ response' = None
    /\ prev' = state
    /\ lints' = 0
    /\ calls' = <<>>
    /\ UNCHANGED state
    /\ UNCHANGED serverVars
    /\ UNCHANGED ioVars
    /\ UNCHANGED <<decVars, lintVars>>

Next == Read \/ Handle \/ Write

Spec == Init /\ [][Next]_vars

\* ------------------------------------------------ src/src/server.rs
\* Response::success and Response::error of the envelope model server.rs was
\* written against
Response_success(id, value) ==
    [variant |-> "Success", jsonrpc |-> Version, result |-> value, id |-> id]

Response_error(id, error) ==
    [variant |-> "Error", jsonrpc |-> Version, error |-> error, id |-> id]

\* ErrorType::code
ErrorType_code(type) ==
    CASE type = "InvalidRequest" -> -32600
      [] type = "Internal" -> -32603
      [] type = "ServerNotInitialised" -> -32002

\* requests and messages the Server threads are given
SrvIds == {[Number |-> 1], [String |-> "a"]}

SrvRequestMethod ==
    {[name |-> "initialize", params |-> "p1"], [name |-> "shutdown"]}
    \cup {[name |-> "textDocument/diagnostic", params |-> [uri |-> u]] : u \in Uris}

SrvRequest == [jsonrpc : {Version}, method : SrvRequestMethod, id : SrvIds]

SrvMessages ==
    {Message_Request(r) : r \in SrvRequest}
    \cup {Message_BatchRequest(rs) : rs \in SeqsUpTo(SrvRequest, MaxSrvBatch)}

\* the requests a message holds, in order
RequestsOf(msg) == IF msg.kind = "Request" THEN <<msg.request>> ELSE msg.requests

\* Server::initialise: takes the lock and replaces the state
Server_initialise(id, params) ==
    [state |-> State_Initialised(params),
     response |-> Response_success(id, initialise_Result_default)]

\* Server::shutdown: takes the lock and replaces the state
Server_shutdown(id) ==
    [state |-> State_Shutdown,
     response |-> Response_success(id, "null")]

\* Server::uninitialised_request
Server_uninitialised_request(id) ==
    Response_error(id,
        Error_new(ErrorType_code("ServerNotInitialised"), "Server not initialised", None))

\* Server::request_post_shutdown
Server_request_post_shutdown(id) ==
    Response_error(id,
        Error_new(ErrorType_code("InvalidRequest"), "Server has been shutdown", None))

\* Server::text_document_diagnostic; diagnostics is what linter.lint returned
Server_text_document_diagnostic(id, diagnostics) ==
    Response_success(id, pull_Result_full("result", diagnostics))

\* the match of Server::handle_request on the cloned state: what the arm
\* does, "respond" (with the new state and the response) or the panic it
\* runs into
Server_handle_request(current, snap, request, lint) ==
    CASE snap.tag = "Uninitialised" ->
            IF request.method.name = "initialize"
            THEN LET r == Server_initialise(request.id, request.method.params)
                 IN [outcome |-> "respond", state |-> r.state, response |-> r.response]
            ELSE [outcome |-> "respond", state |-> current,
                  response |-> Server_uninitialised_request(request.id)]
      [] snap.tag = "Shutdown" ->
            [outcome |-> "respond", state |-> current,
             response |-> Server_request_post_shutdown(request.id)]
      [] snap.tag = "Initialised" ->
            CASE request.method.name = "shutdown" ->
                    LET r == Server_shutdown(request.id)
                    IN [outcome |-> "respond", state |-> r.state, response |-> r.response]
              [] request.method.name = "textDocument/diagnostic" ->
                    \* CfnLinter::lint unwraps: a failing linter panics
                    IF lint.ok
                    THEN [outcome |-> "respond", state |-> current,
                          response |->
                            Server_text_document_diagnostic(request.id, lint.diagnostics)]
                    ELSE [outcome |-> "unwrap"]
              [] OTHER -> [outcome |-> "todo"]     \* _ => todo!()

\* Server::handle, Request and BatchRequest arms, up to the first
\* self.state.lock() of handle_request
Server_handle(t) ==
    /\ ~srvExited
    /\ srvPc[t] = "idle"
    /\ \E m \in SrvMessages :
        /\ srvMsg' = [srvMsg EXCEPT ![t] = Some(m)]
        /\ IF RequestsOf(m) = <<>>
           THEN /\ srvPc' = [srvPc EXCEPT ![t] = "done"]
                /\ srvIdx' = [srvIdx EXCEPT ![t] = 0]
           ELSE /\ srvPc' = [srvPc EXCEPT ![t] = "lock"]
                /\ srvIdx' = [srvIdx EXCEPT ![t] = 1]
    /\ UNCHANGED <<srvState, srvSnap, srvResps, srvExited>>
    /\ UNCHANGED handlerVars
    /\ UNCHANGED ioVars
    /\ UNCHANGED <<decVars, lintVars>>

\* Server::handle_request: let state = { lock; lock.clone() }
Server_lock(t) ==
    /\ ~srvExited
    /\ srvPc[t] = "lock"
    /\ srvSnap' = [srvSnap EXCEPT ![t] = srvState]
    /\ srvPc' = [srvPc EXCEPT ![t] = "locked"]
    /\ UNCHANGED <<srvState, srvMsg, srvIdx, srvResps, srvExited>>
    /\ UNCHANGED handlerVars
    /\ UNCHANGED ioVars
    /\ UNCHANGED <<decVars, lintVars>>

\* Server::handle_request: match state { .. } on the clone
Server_dispatch(t) ==
    /\ ~srvExited
    /\ srvPc[t] = "locked"
    /\ \E lint \in LintOutcomes :
        LET requests == RequestsOf(srvMsg[t][1])
            r == Server_handle_request(srvState, srvSnap[t], requests[srvIdx[t]], lint)
        IN IF r.outcome # "respond"
           THEN /\ srvPc' = [srvPc EXCEPT ![t] = r.outcome]
                /\ UNCHANGED <<srvState, srvIdx, srvResps>>
           ELSE /\ srvState' = r.state
                /\ srvResps' = [srvResps EXCEPT ![t] = Append(@, r.response)]
                /\ IF srvIdx[t] = Len(requests)
                   THEN /\ srvPc' = [srvPc EXCEPT ![t] = "done"]
                        /\ UNCHANGED srvIdx
                   ELSE /\ srvPc' = [srvPc EXCEPT ![t] = "lock"]
                        /\ srvIdx' = [srvIdx EXCEPT ![t] = @ + 1]
    /\ UNCHANGED <<srvMsg, srvSnap, srvExited>>
    /\ UNCHANGED handlerVars
    /\ UNCHANGED ioVars
    /\ UNCHANGED <<decVars, lintVars>>

\* Server::handle returns Some(response); the thread takes its next message
Server_return(t) ==
    /\ ~srvExited
    /\ srvPc[t] = "done"
    /\ srvPc' = [srvPc EXCEPT ![t] = "idle"]
    /\ srvMsg' = [srvMsg EXCEPT ![t] = None]
    /\ srvIdx' = [srvIdx EXCEPT ![t] = 0]
    /\ srvSnap' = [srvSnap EXCEPT ![t] = State_Uninitialised]
    /\ srvResps' = [srvResps EXCEPT ![t] = <<>>]
    /\ UNCHANGED <<srvState, srvExited>>
    /\ UNCHANGED handlerVars
    /\ UNCHANGED ioVars
    /\ UNCHANGED <<decVars, lintVars>>

\* Server::handle, Notification arm: Server::handle_notification reads the
\* state under the lock and matches on the clone
Server_handle_notification(t) ==
    /\ ~srvExited
    /\ srvPc[t] = "idle"
    /\ \E n \in Notification :
        CASE srvState.tag \in {"Uninitialised", "Shutdown"} ->
                /\ srvExited' = (n.method.name = "exit")    \* Server::exit
                /\ UNCHANGED <<srvPc, srvMsg>>
          [] srvState.tag = "Initialised" ->                \* todo!()
                /\ srvPc' = [srvPc EXCEPT ![t] = "todo"]
                /\ srvMsg' = [srvMsg EXCEPT ![t] = Some(Message_Notification(n))]
                /\ UNCHANGED srvExited
    /\ UNCHANGED <<srvState, srvIdx, srvSnap, srvResps>>
    /\ UNCHANGED handlerVars
    /\ UNCHANGED ioVars
    /\ UNCHANGED <<decVars, lintVars>>

ServerNext ==
    \E t \in Threads :
        \/ Server_handle(t)
        \/ Server_lock(t)
        \/ Server_dispatch(t)
        \/ Server_return(t)
        \/ Server_handle_notification(t)

ServerSpec == Init /\ [][ServerNext]_vars

\* ------------------------------------------------ properties
\* handler.handle has returned for the message of this iteration
Handled == pc \in {"write", "exited"} /\ message # None
\* ... and the message was a single Request
HandledRequest == Handled /\ message[1].kind = "Request"
\* ... and the message was a BatchRequest
HandledBatch == Handled /\ message[1].kind = "BatchRequest"
\* the Response handed back for a Request or a BatchRequest
TheResponse == response[1].response
IsResponse == Len(response) = 1 /\ response[1].kind = "Response"

IsError(r, code, msg) ==
    /\ r.variant = "Error"
    /\ ErrorCode_code(r.error.code) = code
    /\ r.error.message = msg

\* C1: the session state only moves Uninitialised -> Initialised -> Shutdown:
\* no step leads from Initialised back to Uninitialised, and no step leaves
\* Shutdown.
C1_StateMonotonic ==
    [][ /\ (state.tag = "Initialised" => state'.tag # "Uninitialised")
        /\ (state.tag = "Shutdown" => state'.tag = "Shutdown") ]_vars

\* C1 witness: an initialize request was handled after the shutdown
C1_Witness ==
    /\ HandledRequest
    /\ prev.tag = "Shutdown"
    /\ message[1].request.method.name = "initialize"
    /\ state.tag = "Shutdown"

\* C3: in the Uninitialised state every request other than initialize, alone
\* or as the elements of a batch, is answered with the error -32002 "Server
\* not initialised" and the state is still Uninitialised afterwards.
C3_UninitialisedRejects ==
    /\ (HandledRequest /\ prev.tag = "Uninitialised"
            /\ message[1].request.method.name # "initialize")
        => /\ IsResponse
           /\ IsError(TheResponse, -32002, "Server not initialised")
           /\ state = State_Uninitialised
    /\ (HandledBatch /\ prev.tag = "Uninitialised"
            /\ \A i \in 1..Len(message[1].requests) :
                    message[1].requests[i].method.name # "initialize")
        => /\ IsResponse
           /\ \A i \in 1..Len(TheResponse.responses) :
                    IsError(TheResponse.responses[i], -32002, "Server not initialised")
           /\ state = State_Uninitialised

\* C3 witness: a shutdown was rejected before initialisation, and so was a
\* batch of two such requests
C3_Witness ==
    /\ HandledBatch
    /\ prev.tag = "Uninitialised"
    /\ Len(message[1].requests) = 2
    /\ message[1].requests[1].method.name = "shutdown"
    /\ message[1].requests[2].method.name = "textDocument/diagnostic"
    /\ state.tag = "Uninitialised"

\* C4: an initialize request handled in the Uninitialised state leaves the
\* state Initialised with the request's parameters and is answered with a
\* success whose result carries capabilities and serverInfo.
C4_InitialiseAccepted ==
    (HandledRequest /\ prev.tag = "Uninitialised"
        /\ message[1].request.method.name = "initialize")
    => /\ state = State_Initialised(message[1].request.method.params)
       /\ IsResponse
       /\ TheResponse.variant = "Success"
       /\ TheResponse.result.variant = "Initialise"
       /\ {"capabilities", "serverInfo"} \subseteq DOMAIN TheResponse.result.value
       /\ TheResponse.result.value.serverInfo.name = CARGO_PKG_NAME
       /\ TheResponse.result.value.capabilities.positionEncoding = "utf-16"

C4_Witness ==
    /\ HandledRequest
    /\ prev.tag = "Uninitialised"
    /\ message[1].request.method.name = "initialize"
    /\ state.tag = "Initialised"

\* C6: a shutdown request handled in the Initialised state leaves the state
\* Shutdown and is answered with a success whose result is null.
C6_ShutdownAccepted ==
    (HandledRequest /\ prev.tag = "Initialised"
        /\ message[1].request.method.name = "shutdown")
    => /\ state = State_Shutdown
       /\ IsResponse
       /\ TheResponse.variant = "Success"
       /\ TheResponse.result = ResponseResult_Null

C6_Witness ==
    /\ HandledRequest
    /\ prev.tag = "Initialised"
    /\ message[1].request.method.name = "shutdown"
    /\ state.tag = "Shutdown"

\* C7: in the Shutdown state every request, alone or in a batch, is answered
\* with the error -32600 "Server has been shutdown", the linter is not called
\* and the state stays Shutdown.
C7_ShutdownRejects ==
    /\ (HandledRequest /\ prev.tag = "Shutdown")
        => /\ IsResponse
           /\ IsError(TheResponse, -32600, "Server has been shutdown")
           /\ lints = 0
           /\ state = State_Shutdown
    /\ (HandledBatch /\ prev.tag = "Shutdown")
        => /\ IsResponse
           /\ \A i \in 1..Len(TheResponse.responses) :
                    IsError(TheResponse.responses[i], -32600, "Server has been shutdown")
           /\ lints = 0
           /\ state = State_Shutdown

\* C7 witness: a textDocument/diagnostic request was handled after shutdown
C7_Witness ==
    /\ HandledRequest
    /\ prev.tag = "Shutdown"
    /\ message[1].request.method.name = "textDocument/diagnostic"
    /\ TheResponse.variant = "Error"

\* C8: the response to a single request, success or error, carries the id of
\* the request.
C8_IdEcho ==
    HandledRequest
    => /\ IsResponse
       /\ TheResponse.variant \in {"Success", "Error"}
       /\ TheResponse.id = message[1].request.id

\* C8 witness: an error response to a request with a string id
C8_Witness ==
    /\ HandledRequest
    /\ message[1].request.id = [String |-> "a"]
    /\ TheResponse.variant = "Error"
    /\ TheResponse.id = [String |-> "a"]

\* C9: a batch of N requests is answered with one Batch response of N
\* responses, the i-th carrying the id of the i-th request.
C9_BatchOrder ==
    HandledBatch
    => /\ IsResponse
       /\ TheResponse.variant = "Batch"
       /\ Len(TheResponse.responses) = Len(message[1].requests)
       /\ \A i \in 1..Len(message[1].requests) :
            /\ TheResponse.responses[i].variant \in {"Success", "Error"}
            /\ TheResponse.responses[i].id = message[1].requests[i].id

\* C9 witness: a batch of MaxBatch requests with different ids was answered
C9_Witness ==
    /\ HandledBatch
    /\ Len(message[1].requests) = MaxBatch
    /\ message[1].requests[1].id # message[1].requests[MaxBatch].id
    /\ Len(TheResponse.responses) = MaxBatch

\* C10: a batch of two shutdown requests handled in the Initialised state is
\* answered with a null success for the first and the error -32600 "Server
\* has been shutdown" for the second, and the state is Shutdown afterwards.
C10_BatchSharesState ==
    (HandledBatch /\ prev.tag = "Initialised"
        /\ Len(message[1].requests) = 2
        /\ message[1].requests[1].method.name = "shutdown"
        /\ message[1].requests[2].method.name = "shutdown")
    => /\ IsResponse
       /\ TheResponse.variant = "Batch"
       /\ Len(TheResponse.responses) = 2
       /\ TheResponse.responses[1].variant = "Success"
       /\ TheResponse.responses[1].result = ResponseResult_Null
       /\ IsError(TheResponse.responses[2], -32600, "Server has been shutdown")
       /\ state = State_Shutdown

C10_Witness ==
    /\ HandledBatch
    /\ prev.tag = "Initialised"
    /\ Len(message[1].requests) = 2
    /\ message[1].requests[1].method.name = "shutdown"
    /\ message[1].requests[2].method.name = "shutdown"
    /\ state.tag = "Shutdown"

\* ------------------------------------------------ properties of the Server
\* thread t has finished with the single request of its message: it has the
\* response, or it panicked while handling the request
SrvHandledRequest(t) ==
    /\ srvPc[t] \in {"done", "todo", "unwrap"}
    /\ srvMsg[t] # None
    /\ srvMsg[t][1].kind = "Request"

SrvIsError(r, code, msg) ==
    /\ r.variant = "Error"
    /\ r.error.code = code
    /\ r.error.message = msg

\* the dispatch table: does response r answer a request of method m handled
\* in a state tagged s
MatchesTable(s, m, r, isError(_, _, _)) ==
    CASE s = "Uninitialised" /\ m = "initialize" -> r.variant = "Success"
      [] s = "Uninitialised" /\ m # "initialize" ->
            isError(r, -32002, "Server not initialised")
      [] s = "Initialised" /\ m = "initialize" ->
            isError(r, -32003, "Server already initialised")
      [] s = "Initialised" /\ m = "shutdown" -> r.variant = "Success"
      [] s = "Initialised" /\ m = "textDocument/diagnostic" ->
            \/ r.variant = "Success"
            \/ isError(r, -32603, "Failed to generate diagnostics")
      [] s = "Shutdown" -> isError(r, -32600, "Server has been shutdown")

\* C2: request dispatch is total: in every state every request method is
\* answered with exactly one Response, the one the dispatch table names, and
\* no (state, method) pair is left unhandled (a panic at todo!()). Stated
\* for Server::handle_request.
C2_DispatchTotal ==
    \A t \in Threads :
        SrvHandledRequest(t)
        => /\ srvPc[t] # "todo"
           /\ srvPc[t] = "done"
                => /\ Len(srvResps[t]) = 1
                   /\ MatchesTable(srvSnap[t].tag, srvMsg[t][1].request.method.name,
                                   srvResps[t][1], SrvIsError)

\* C5: an initialize request handled while the state is Initialised is
\* answered with the error -32003 and leaves the state Initialised. Stated
\* for Server::handle_request.
C5_AlreadyInitialised ==
    \A t \in Threads :
        (SrvHandledRequest(t)
            /\ srvSnap[t].tag = "Initialised"
            /\ srvMsg[t][1].request.method.name = "initialize")
        => /\ srvPc[t] = "done"
           /\ Len(srvResps[t]) = 1
           /\ SrvIsError(srvResps[t][1], -32003, "Server already initialised")
           /\ srvState.tag = "Initialised"

\* MessageHandler::handle_request is total: every (state, method) pair is
\* answered as the dispatch table says.
HandlerDispatchTotal ==
    HandledRequest
    => /\ pc = "write"
       /\ IsResponse
       /\ MatchesTable(prev.tag, message[1].request.method.name, TheResponse, IsError)

\* MessageHandler::handle_request answers an initialize request in the
\* Initialised state with the error -32003 and keeps the state.
HandlerAlreadyInitialised ==
    (HandledRequest /\ prev.tag = "Initialised"
        /\ message[1].request.method.name = "initialize")
    => /\ IsResponse
       /\ IsError(TheResponse, -32003, "Server already initialised")
       /\ state = prev

\* --------------------------------------- src/src/model.rs: JSON and serde
\* A JSON text is modelled by what the derived Deserialize impls look at:
\*   [type |-> "invalid"]   not JSON
\*   [type |-> "object", method, params, id, result]   an object with
\*       "jsonrpc":"2.0"; method, params and id are Options (None: no such
\*       member), result says whether the object has a "result" member
\*   [type |-> "array", elements]   an array of such objects
\* params, when present, fit the method they come with.
MaxElems == 2

\* the "params" member of a serialised method: the members of the params
\* struct of the variant, each an Option (None: no such member)
Params_to_json(method) ==
    CASE method.name = "initialize" ->
            [initialise |-> Some(method.params), uri |-> None, version |-> None,
             diagnostics |-> None]
      [] method.name \in {"textDocument/diagnostic", "textDocument/didSave"} ->
            [initialise |-> None, uri |-> Some(method.params.uri), version |-> None,
             diagnostics |-> None]
      [] method.name = "textDocument/didOpen" ->
            [initialise |-> None, uri |-> Some(method.params.uri),
             version |-> Some(method.params.version), diagnostics |-> None]
      [] method.name = "textDocument/publishDiagnostics" ->
            [initialise |-> None, uri |-> Some(method.params.uri),
             version |-> method.params.version,
             diagnostics |-> Some(method.params.diagnostics)]

\* the "method" and "params" members of a serialised RequestMethod or
\* NotificationMethod (serde tag = "method", content = "params")
Method_to_json(method) ==
    [method |-> Some(method.name),
     params |-> IF "params" \in DOMAIN method THEN Some(Params_to_json(method)) ELSE None]

\* Serialize for Request and Notification (jsonrpc, the flattened method, id)
Message_to_json(msg) ==
    CASE msg.kind = "Request" ->
            [type |-> "object",
             method |-> Method_to_json(msg.request.method).method,
             params |-> Method_to_json(msg.request.method).params,
             id |-> Some(msg.request.id), result |-> FALSE]
      [] msg.kind = "Notification" ->
            [type |-> "object",
             method |-> Method_to_json(msg.notification.method).method,
             params |-> Method_to_json(msg.notification.method).params,
             id |-> None, result |-> FALSE]

\* the method and params members a client may send: those of every known
\* method, an unknown method, and none
JsonMethodMembers ==
    {Method_to_json(m) : m \in RequestMethod \cup NotificationMethod}
    \cup {[method |-> Some("foo"), params |-> None], [method |-> None, params |-> None]}

JsonObjects ==
    {[type |-> "object", method |-> mm.method, params |-> mm.params, id |-> i, result |-> r] :
        mm \in JsonMethodMembers, i \in {None} \cup {Some(id) : id \in RequestIds},
        r \in BOOLEAN}

\* the elements of the arrays a client may send: a request, a notification,
\* a response
JsonElements ==
    {[type |-> "object", method |-> Some("shutdown"), params |-> None,
      id |-> Some([Number |-> 1]), result |-> FALSE],
     [type |-> "object", method |-> Some("exit"), params |-> None,
      id |-> None, result |-> FALSE],
     [type |-> "object", method |-> None, params |-> None,
      id |-> Some([Number |-> 1]), result |-> TRUE]}

JsonTexts ==
    {[type |-> "invalid"]}
    \cup JsonObjects
    \cup {[type |-> "array", elements |-> es] : es \in SeqsUpTo(JsonElements, MaxElems)}

\* mutant of Deserialize for RequestMethod: an unknown method name falls
\* back to shutdown
RequestMethod_deserialize_default(json) ==
    IF json.method # None
        /\ \E m \in RequestMethod :
                /\ m.name = json.method[1]
                /\ Method_to_json(m) = [method |-> json.method, params |-> json.params]
    THEN Some(CHOOSE m \in RequestMethod :
                /\ m.name = json.method[1]
                /\ Method_to_json(m) = [method |-> json.method, params |-> json.params])
    ELSE IF json.method # None
    THEN Some([name |-> "shutdown"])
    ELSE None

\* Deserialize for RequestMethod: the variant named by "method", with its
\* params; an unknown name is an error (None)
RequestMethod_deserialize(json) ==
    IF json.method # None
        /\ \E m \in RequestMethod :
                /\ m.name = json.method[1]
                /\ Method_to_json(m) = [method |-> json.method, params |-> json.params]
    THEN Some(CHOOSE m \in RequestMethod :
                /\ m.name = json.method[1]
                /\ Method_to_json(m) = [method |-> json.method, params |-> json.params])
    ELSE None

\* Deserialize for NotificationMethod
NotificationMethod_deserialize(json) ==
    IF json.method # None
        /\ \E m \in NotificationMethod :
                /\ m.name = json.method[1]
                /\ Method_to_json(m) = [method |-> json.method, params |-> json.params]
    THEN Some(CHOOSE m \in NotificationMethod :
                /\ m.name = json.method[1]
                /\ Method_to_json(m) = [method |-> json.method, params |-> json.params])
    ELSE None

\* Deserialize for Request { jsonrpc, #[serde(flatten)] method, id }: a map
\* with a request method and an id member; other members are ignored
Request_deserialize(json) ==
    IF json.type = "object" /\ json.id # None /\ RequestMethod_deserialize(json) # None
    THEN Some([jsonrpc |-> Version, method |-> RequestMethod_deserialize(json)[1],
               id |-> json.id[1]])
    ELSE None

\* Deserialize for Notification { jsonrpc, #[serde(flatten)] method }: a map
\* with a notification method; other members, an id among them, are ignored
Notification_deserialize(json) ==
    IF json.type = "object" /\ NotificationMethod_deserialize(json) # None
    THEN Some([jsonrpc |-> Version, method |-> NotificationMethod_deserialize(json)[1]])
    ELSE None

\* Deserialize for Response: Success { jsonrpc, result, id }, then
\* Error { jsonrpc, error, id }, then Batch(Vec<Response>); the objects of
\* the model have no error member
RECURSIVE Response_deserialize(_)
Response_deserialize(json) ==
    CASE json.type = "object" ->
            IF json.result /\ json.id # None
            THEN Some(SuccessResponse_new(json.id[1], ResponseResult_Null))
            ELSE None
      [] json.type = "array" ->
            IF \A i \in 1..Len(json.elements) : Response_deserialize(json.elements[i]) # None
            THEN Some(Response_Batch([i \in 1..Len(json.elements) |->
                                        Response_deserialize(json.elements[i])[1]]))
            ELSE None
      [] OTHER -> None

\* Deserialize for the untagged enum Message: Request, BatchRequest,
\* Notification, Response are tried in this order and the first that
\* succeeds is the result; None when none does
Message_deserialize(json) ==
    IF json.type = "invalid" THEN None
    ELSE IF Request_deserialize(json) # None
    THEN Some(Message_Request(Request_deserialize(json)[1]))
    ELSE IF json.type = "array"
            /\ \A i \in 1..Len(json.elements) : Request_deserialize(json.elements[i]) # None
    THEN Some(Message_BatchRequest([i \in 1..Len(json.elements) |->
                                        Request_deserialize(json.elements[i])[1]]))
    ELSE IF Notification_deserialize(json) # None
    THEN Some(Message_Notification(Notification_deserialize(json)[1]))
    ELSE IF Response_deserialize(json) # None
    THEN Some(Message_Response(Response_deserialize(json)[1]))
    ELSE None

\* ------------------------------------- src/src/reader.rs, src/src/writer.rs
\* The channel carries bytes; the model cuts them into tokens, each a run of
\* bytes the parsers of reader.rs take or refuse as a whole:
\*   CL    "Content-Length: <digits>\r\n"
\*   CT    "Content-Type: <type>; charset=<charset>\r\n"
\*   CRLF  "\r\n"
\*   BOGUS "Bogus: 1\r\n", a header line of neither name
\*   BODY  a JSON text, followed by "\n" when nl is TRUE
\* f is the number of the frame the client wrote the token for.
MaxFrames == 2
\* calls of Reader::read the loop makes before the model stops it
MaxReads == 3

\* the messages the client of the channel sends
IoMessages ==
    {Message_Request([jsonrpc |-> Version,
                      method |-> [name |-> "initialize", params |-> "p1"],
                      id |-> [Number |-> 1]]),
     Message_Request([jsonrpc |-> Version,
                      method |-> [name |-> "textDocument/diagnostic",
                                  params |-> [uri |-> "file:///a.yaml"]],
                      id |-> [Number |-> 1]]),
     Message_Request([jsonrpc |-> Version,
                      method |-> [name |-> "shutdown"],
                      id |-> [Number |-> 1]]),
     Message_Notification([jsonrpc |-> Version, method |-> [name |-> "exit"]])}

\* the JSON text no parser accepts
InvalidJson == [type |-> "invalid"]

\* What the client writes as one frame: the body (None: no body), the
\* header block ("CL": Content-Length alone, as tests/common message()
\* writes it; "CL_CT" and "CT_CL": with the Content-Type header after or
\* before it; "BOGUS": one header line of neither name), and whether the
\* client ends the body with a newline (message() does not).
Frames ==
    {[body |-> Some(Message_to_json(m)), hdr |-> "CL", nl |-> n] :
        m \in IoMessages, n \in BOOLEAN}
    \cup {[body |-> Some(Message_to_json(m)), hdr |-> h, nl |-> FALSE] :
            m \in {m2 \in IoMessages : m2.kind = "Request"
                                        /\ m2.request.method.name = "initialize"},
            h \in {"CL_CT", "CT_CL"}}
    \cup {[body |-> Some(InvalidJson), hdr |-> "CL", nl |-> FALSE]}
    \cup {[body |-> None, hdr |-> "BOGUS", nl |-> FALSE]}

\* the frame is one the protocol allows: Content-Length, with or without
\* Content-Type, a blank line, the JSON of a message and nothing after it
WellFormed(frame) ==
    /\ frame.hdr \in {"CL", "CL_CT", "CT_CL"}
    /\ frame.body # None
    /\ \E m \in IoMessages : Message_to_json(m) = frame.body[1]
    /\ ~frame.nl

\* the message a well-formed frame carries
FrameMessage(frame) == CHOOSE m \in IoMessages : Message_to_json(m) = frame.body[1]

Token(t, k) == [t |-> t, f |-> k, json |-> None, nl |-> TRUE]

\* tests/common message(), and the other frames of Frames: the bytes of
\* frame number k
FrameTokens(frame, k) ==
    (CASE frame.hdr = "CL" -> <<Token("CL", k)>>
       [] frame.hdr = "CL_CT" -> <<Token("CL", k), Token("CT", k)>>
       [] frame.hdr = "CT_CL" -> <<Token("CT", k), Token("CL", k)>>
       [] frame.hdr = "BOGUS" -> <<Token("BOGUS", k)>>)
    \o <<Token("CRLF", k)>>
    \o (IF frame.body = None THEN <<>>
        ELSE <<[t |-> "BODY", f |-> k, json |-> frame.body, nl |-> frame.nl]>>)

\* BufRead::read_line: the number of tokens up to and including the first
\* one that ends in a newline; 0 when the channel holds no newline
LineEnd(bytes) ==
    IF \E i \in 1..Len(bytes) : bytes[i].nl
    THEN CHOOSE i \in 1..Len(bytes) : bytes[i].nl /\ \A j \in 1..(i - 1) : ~bytes[j].nl
    ELSE 0

\* Reader::headers: nom permutation((content_length_header,
\* opt(content_type_header))); the parsers are tried in turn on what is left
\* until both have succeeded, opt succeeding on anything
Reader_headers(msg) ==
    IF msg # <<>> /\ msg[1].t = "CL"
    THEN IF Len(msg) >= 2 /\ msg[2].t = "CT"
         THEN [ok |-> TRUE, remainder |-> SubSeq(msg, 3, Len(msg))]
         ELSE [ok |-> TRUE, remainder |-> SubSeq(msg, 2, Len(msg))]
    ELSE IF Len(msg) >= 2 /\ msg[1].t = "CT" /\ msg[2].t = "CL"
         THEN [ok |-> TRUE, remainder |-> SubSeq(msg, 3, Len(msg))]
         ELSE [ok |-> FALSE, remainder |-> msg]

\* Reader::end_of_headers: terminated(crlf, not(eof))
Reader_end_of_headers(msg) ==
    IF Len(msg) >= 2 /\ msg[1].t = "CRLF"
    THEN [ok |-> TRUE, remainder |-> SubSeq(msg, 2, Len(msg))]
    ELSE [ok |-> FALSE, remainder |-> msg]

\* serde_json::from_str::<Message>: the text must be one JSON value with
\* nothing but whitespace after it, and the value must deserialise
from_str(text) ==
    IF Len(text) = 1 /\ text[1].t = "BODY"
    THEN LET m == Message_deserialize(text[1].json[1])
         IN IF m # None THEN [ok |-> TRUE, value |-> m[1]] ELSE [ok |-> FALSE, value |-> None]
    ELSE [ok |-> FALSE, value |-> None]

\* Reader::parse
Reader_parse(msg) ==
    LET h == Reader_headers(msg)
        e == Reader_end_of_headers(h.remainder)
        j == from_str(e.remainder)
    IN IF ~h.ok THEN Err(ReadError_MissingContentLength)
       ELSE IF ~e.ok THEN Err(ReadError_IncompleteMessage)
       ELSE IF ~j.ok THEN Err(ReadError_InvalidRequest([Null |-> TRUE], "InvalidRequest"))
       ELSE Ok(j.value)

\* the client writes one more frame to the channel
Client_send ==
    /\ ~eof
    /\ Len(sent) < MaxFrames
    /\ \E frame \in Frames :
          /\ sent' = Append(sent, frame)
          /\ input' = input \o FrameTokens(frame, Len(sent) + 1)
    /\ UNCHANGED <<eof, buffer, consumed, nread, result, ioPc, ioState, ioResponse, output>>
    /\ UNCHANGED <<handlerVars, serverVars, decVars, lintVars>>

\* the client closes the channel
Client_close ==
    /\ ~eof
    /\ eof' = TRUE
    /\ UNCHANGED <<input, sent, buffer, consumed, nread, result, ioPc, ioState,
                   ioResponse, output>>
    /\ UNCHANGED <<handlerVars, serverVars, decVars, lintVars>>

\* one turn of the loop of Reader::read: read_line appends a line to the
\* buffer (what is left of the channel at its end, nothing once that is
\* taken), blocking while the channel is open and holds no newline; then
\* parse: IncompleteMessage continues the loop, anything else clears the
\* buffer and returns to main
Reader_read ==
    /\ ioPc = "read"
    /\ nread < MaxReads
    /\ LineEnd(input) > 0 \/ eof
    /\ LET n == IF LineEnd(input) > 0 THEN LineEnd(input) ELSE Len(input)
           line == SubSeq(input, 1, n)
           parsed == Reader_parse(buffer \o line)
       IN /\ input' = SubSeq(input, n + 1, Len(input))
          /\ consumed' = consumed \o line
          /\ IF ~parsed.ok /\ parsed.error = ReadError_IncompleteMessage
             THEN /\ buffer' = buffer \o line
                  /\ UNCHANGED <<nread, result, ioPc>>
             ELSE /\ buffer' = <<>>
                  /\ nread' = nread + 1
                  /\ result' = Some(parsed)
                  /\ ioPc' = "dispatch"
    /\ UNCHANGED <<eof, sent, ioState, ioResponse, output>>
    /\ UNCHANGED <<handlerVars, serverVars, decVars, lintVars>>

\* main: match message { Ok(message) => handler.handle(message),
\*                       Err(error) => Some(Message::Response(Response::from(error))) }
Main_dispatch ==
    /\ ioPc = "dispatch"
    /\ IF result[1].ok
       THEN \E lint \in [1..1 -> LintOutcomes] :
                LET r == handle(ioState, result[1].value, lint)
                IN /\ ioState' = r.state
                   /\ ioResponse' = r.response
                   /\ ioPc' = r.pc
       ELSE /\ ioResponse' = Some(Message_Response(Response_from(result[1].error)))
            /\ ioPc' = "write"
            /\ UNCHANGED ioState
    /\ UNCHANGED <<input, eof, sent, buffer, consumed, nread, result, output>>
    /\ UNCHANGED <<handlerVars, serverVars, decVars, lintVars>>

\* mutant of Main_write: the loop goes back to reading with the response
\* still to be written
Main_write_deferred ==
    /\ ioPc = "write"
    /\ ioPc' = "read"
    /\ consumed' = <<>>
    /\ result' = None
    /\ UNCHANGED <<input, eof, sent, buffer, nread, ioState, ioResponse, output>>
    /\ UNCHANGED <<handlerVars, serverVars, decVars, lintVars>>

\* main: if let Some(response) = response { writer.write(response) }, and
\* Writer::write: the Content-Length header, the Content-Type header, the
\* blank line and the body are four writes to the channel; the first that
\* fails ends the call with a WriteError, which main logs.  Then the next
\* iteration starts.
Main_write ==
    /\ ioPc = "write"
    /\ IF ioResponse = None
       THEN UNCHANGED output
       ELSE \E written \in 0..4 :
                output' = Append(output, [k |-> nread,
                                          response |-> ioResponse[1],
                                          chunks |-> written])
    /\ ioPc' = "read"
    /\ ioResponse' = None
    /\ consumed' = <<>>
    /\ result' = None
    /\ UNCHANGED <<input, eof, sent, buffer, nread, ioState>>
    /\ UNCHANGED <<handlerVars, serverVars, decVars, lintVars>>

\* Reader::read: read_line(..).unwrap() on an I/O error of the channel
Reader_read_fails ==
    /\ ioPc = "read"
    /\ nread < MaxReads
    /\ ioPc' = panicked
    /\ UNCHANGED <<input, eof, sent, buffer, consumed, nread, result, ioState,
                   ioResponse, output>>
    /\ UNCHANGED <<handlerVars, serverVars, decVars, lintVars>>

IoNext ==
    \/ Client_send
    \/ Client_close
    \/ Reader_read
    \/ Reader_read_fails
    \/ Main_dispatch
    \/ Main_write

IoSpec == Init /\ [][IoNext]_vars

\* The server's steps are taken whenever they can be; the client is free to
\* stop sending and to keep the channel open.
IoFairSpec ==
    IoSpec /\ WF_vars(Reader_read) /\ WF_vars(Main_dispatch) /\ WF_vars(Main_write)

\* Reader::parse applied to the bytes of one frame whose header block is
\* the Content-Length header and whose body is any JSON text
Decode_receive ==
    /\ decIn = None
    /\ \E json \in JsonTexts : decIn' = Some(json)
    /\ UNCHANGED decOut
    /\ UNCHANGED <<handlerVars, serverVars, ioVars, lintVars>>

Decode_parse ==
    /\ decIn # None
    /\ decOut = None
    /\ decOut' = Some(Reader_parse(FrameTokens([body |-> decIn, hdr |-> "CL", nl |-> FALSE], 1)))
    /\ UNCHANGED decIn
    /\ UNCHANGED <<handlerVars, serverVars, ioVars, lintVars>>

DecodeNext == Decode_receive \/ Decode_parse

DecodeSpec == Init /\ [][DecodeNext]_vars

\* ------------------------------------------- src/src/method/diagnostic.rs
\* digits a number in the linter's output is written with
Digits == {0, 1, 2, 9}
\* the longest number in the linter's output
MaxDigits == 2

\* sequences over S of length 1..n
DigitStrings == SeqsUpTo(Digits, MaxDigits) \ {<<>>}

\* What cfn-lint prints for one finding: "<code> <message>\n<path>:<line>:
\* <column>\n"; the code by its first letter (X: none of E, W, I), line and
\* column as their decimal digits.
Findings ==
    {[code |-> c, line |-> l, column |-> k] :
        c \in {"E", "W", "I", "X"}, l \in DigitStrings, k \in DigitStrings}

\* the value of decimal digits
RECURSIVE decimal(_)
decimal(digits) ==
    IF digits = <<>> THEN 0
    ELSE 10 * decimal(SubSeq(digits, 1, Len(digits) - 1)) + digits[Len(digits)]

\* str::parse::<u32> after digit1: the value of the digits; an error only
\* for a value that does not fit 32 bits, which takes ten digits or more
str_parse(digits) ==
    IF Len(digits) >= 10 THEN None ELSE Some(decimal(digits))

\* Position::new and Range::new
Position_new(line, character) == [line |-> line, character |-> character]
Range_new(start, end) == [start |-> start, end |-> end]

\* parser::range
parser_range(finding) ==
    LET line == str_parse(finding.line)
        character == str_parse(finding.column)
    IN IF line = None \/ character = None THEN None
       ELSE LET position == Position_new(line[1], character[1])
            IN Some(Range_new(position, position))

\* parser::code: the severity by the first letter; todo!() on any other
parser_code(finding) ==
    CASE finding.code = "E" -> [panic |-> FALSE, severity |-> "Error"]
      [] finding.code = "W" -> [panic |-> FALSE, severity |-> "Warning"]
      [] finding.code = "I" -> [panic |-> FALSE, severity |-> "Information"]
      [] OTHER -> [panic |-> TRUE, severity |-> "none"]

\* CfnLinter::lint on output of one finding: parser::parse(..).unwrap(),
\* where parser::diagnostic takes the code, the message and the range
CfnLinter_lint(finding) ==
    LET code == parser_code(finding)
        range == parser_range(finding)
    IN IF code.panic \/ range = None
       THEN [panic |-> TRUE, diagnostics |-> <<>>]
       ELSE [panic |-> FALSE,
             diagnostics |-> <<[range |-> range[1], severity |-> code.severity,
                                code |-> finding.code]>>]

\* cfn-lint ends unsuccessfully with one finding on its output
Linter_prints ==
    /\ lintOutput = None
    /\ \E finding \in Findings : lintOutput' = Some(finding)
    /\ UNCHANGED lintResult
    /\ UNCHANGED <<handlerVars, serverVars, ioVars, decVars>>

Linter_parse ==
    /\ lintOutput # None
    /\ lintResult = None
    /\ lintResult' = Some(CfnLinter_lint(lintOutput[1]))
    /\ UNCHANGED lintOutput
    /\ UNCHANGED <<handlerVars, serverVars, ioVars, decVars>>

LintNext == Linter_prints \/ Linter_parse

LintSpec == Init /\ [][LintNext]_vars

\* ------------------------------------------------------ the output bytes
\* the diagnostics a message carries
Response_items(r) ==
    IF r.variant = "Success" /\ r.result.variant = "PullDiagnostics"
        /\ r.result.value.kind = "full"
    THEN r.result.value.items
    ELSE <<>>

RECURSIVE Batch_items(_)
Batch_items(rs) ==
    IF rs = <<>> THEN <<>> ELSE Response_items(Head(rs)) \o Batch_items(Tail(rs))

Message_items(msg) ==
    IF msg.kind = "Response"
    THEN IF msg.response.variant = "Batch"
         THEN Batch_items(msg.response.responses)
         ELSE Response_items(msg.response)
    ELSE IF msg.kind = "Notification"
            /\ msg.notification.method.name = "textDocument/publishDiagnostics"
    THEN msg.notification.method.params.diagnostics
    ELSE <<>>

\* serde_json::to_string(&response): the text, kept as a sequence of units:
\* the text up to the diagnostics, one unit for each diagnostic, and the
\* text after them.  A unit is one byte long, but for a diagnostic, whose
\* message cfn-lint words and which stands for a character outside ASCII,
\* two bytes long in UTF-8.
to_string(msg) ==
    LET items == Message_items(msg)
    IN [i \in 1..(Len(items) + 2) |->
            [of |-> msg, i |-> i,
             bytes |-> IF 1 < i /\ i < Len(items) + 2 THEN 2 ELSE 1]]

RECURSIVE String_len(_)

\* mutant of String::len: the number of characters
String_len_chars(text) == Len(text)

\* String::len: the number of bytes
String_len(text) ==
    IF text = <<>> THEN 0 ELSE Head(text).bytes + String_len(Tail(text))

\* String::into_bytes
RECURSIVE into_bytes(_)
into_bytes(text) ==
    IF text = <<>> THEN <<>>
    ELSE [b \in 1..Head(text).bytes |->
            [t |-> "BYTE", n |-> 0, unit |-> Some(Head(text)), b |-> b, nl |-> FALSE]]
         \o into_bytes(Tail(text))

\* Writer::content_length: format!("Content-Length: {}\r\n", content_length)
Writer_content_length(content_length) ==
    <<[t |-> "CL", n |-> content_length, unit |-> None, b |-> 0, nl |-> TRUE]>>

CONTENT_TYPE_HEADER == <<[t |-> "CT", n |-> 0, unit |-> None, b |-> 0, nl |-> TRUE]>>

\* b"\r\n"
Writer_end_of_headers == <<[t |-> "CRLF", n |-> 0, unit |-> None, b |-> 0, nl |-> TRUE]>>

\* Writer::write and Writer::write_headers: what each of the four writes
\* hands to stdout, in order
Writer_write(resp) ==
    LET json == to_string(resp)
    IN <<Writer_content_length(String_len(json)),
         CONTENT_TYPE_HEADER,
         Writer_end_of_headers,
         into_bytes(json)>>

\* the bytes of the first `written` writes
RECURSIVE Written(_, _)
Written(parts, written) ==
    IF written = 0 THEN <<>>
    ELSE Written(parts, written - 1) \o parts[written]

\* the bytes on the output channel
RECURSIVE Channel(_)
Channel(out) ==
    IF out = <<>> THEN <<>>
    ELSE Channel(SubSeq(out, 1, Len(out) - 1))
         \o Written(Writer_write(out[Len(out)].response), out[Len(out)].chunks)

\* Writer.stdout is std::io::Stdout, which is line-buffered: what has been
\* written reaches the channel up to the last line end, and what follows it
\* stays in the buffer until a later write brings a line end, a flush or
\* the end of the process (for a body shorter than the buffer, which is
\* written whole otherwise).  The number of bytes of the stream that have
\* reached the channel:
Stdout_flushed(stream) ==
    IF \E i \in 1..Len(stream) : stream[i].nl
    THEN CHOOSE i \in 1..Len(stream) :
            stream[i].nl /\ \A j \in (i + 1)..Len(stream) : ~stream[j].nl
    ELSE 0

\* the bytes Writer::write has written that are still in the buffer of stdout
Stdout_buffer(out) ==
    SubSeq(Channel(out), Stdout_flushed(Channel(out)) + 1, Len(Channel(out)))

\* String::from_utf8: the text of the bytes, if they are the bytes of a text
from_utf8(bytes) ==
    IF \A i \in 1..Len(bytes) : bytes[i].t = "BYTE"
    THEN LET first == SelectSeq(bytes, LAMBDA x : x.b = 1)
             text == [i \in 1..Len(first) |-> first[i].unit[1]]
         IN IF into_bytes(text) = bytes THEN Some(text) ELSE None
    ELSE None

\* tests/common read_message: the first line gives the length (its last
\* word, parsed as a number), two more lines are read, then that many bytes;
\* every unwrap that fails is a failure of the call
read_message(stream) ==
    LET l1 == LineEnd(stream)
        rest1 == SubSeq(stream, l1 + 1, Len(stream))
        l2 == LineEnd(rest1)
        rest2 == SubSeq(rest1, l2 + 1, Len(rest1))
        l3 == LineEnd(rest2)
        rest3 == SubSeq(rest2, l3 + 1, Len(rest2))
    IN IF l1 = 0 \/ l2 = 0 \/ l3 = 0 \/ stream[l1].t # "CL"
       THEN [ok |-> FALSE, text |-> None, rest |-> <<>>]
       ELSE LET content_length == stream[l1].n
            IN IF Len(rest3) < content_length
               THEN [ok |-> FALSE, text |-> None, rest |-> <<>>]
               ELSE LET text == from_utf8(SubSeq(rest3, 1, content_length))
                    IN [ok |-> text # None, text |-> text,
                        rest |-> SubSeq(rest3, content_length + 1, Len(rest3))]

\* the text the i-th call of read_message returns on the stream
RECURSIVE Client_read(_, _)
Client_read(stream, i) ==
    LET r == read_message(stream)
    IN IF ~r.ok THEN None
       ELSE IF i = 1 THEN r.text
       ELSE Client_read(r.rest, i - 1)

\* ------------------------------------------------ properties, continued
\* handler.handle has returned or panicked for the message of this iteration
Entered == pc \in {"write", "exited", "panicked"} /\ message # None
EnteredNotification == Entered /\ message[1].kind = "Notification"
EnteredExit == EnteredNotification /\ message[1].notification.method.name = "exit"

\* the responses of a Response, one by one
ResponsesOf(r) == IF r.variant = "Batch" THEN r.responses ELSE <<r>>

C12_ExitTerminates == EnteredExit => pc = "exited"

\* C13: handling an exit notification writes nothing, and after it no
\* further frame is read, dispatched or written: the state in which exit has
\* been handled has no response and no step leaves it.
C13_ExitSilentFinal ==
    /\ [](EnteredExit => response = None)
    /\ [][~EnteredExit]_vars

\* C14: a notification never produces a Response: handle returns nothing or
\* an outbound publishDiagnostics notification.
C14_NoResponseToNotification ==
    EnteredNotification
    => \/ response = None
       \/ /\ Len(response) = 1
          /\ response[1].kind = "Notification"
          /\ response[1].notification.method.name = "textDocument/publishDiagnostics"

\* C14 witness: a didSave was answered with a publishDiagnostics notification
C14_Witness ==
    /\ EnteredNotification
    /\ message[1].notification.method.name = "textDocument/didSave"
    /\ response # None

\* C15: in the Initialised state didOpen and didSave call the linter once
\* and, when it answers Ok, return one publishDiagnostics notification with
\* the document's URI, the linter's diagnostics and the version of the event
\* (Some(version) for didOpen, None for didSave); every other notification
\* returns nothing, calls no linter and raises no error.
C15_PublishOnOpenAndSave ==
    (EnteredNotification /\ prev.tag = "Initialised")
    => LET m == message[1].notification.method
           published(version) ==
                Some(Message_Notification(
                    [jsonrpc |-> Version,
                     method |-> [name |-> "textDocument/publishDiagnostics",
                                 params |-> [uri |-> m.params.uri,
                                             version |-> version,
                                             diagnostics |-> calls[1].diagnostics]]]))
       IN CASE m.name = "textDocument/didOpen" ->
                /\ lints = 1
                /\ calls[1] # NoCall
                /\ calls[1].ok => response = published(Some(m.params.version))
            [] m.name = "textDocument/didSave" ->
                /\ lints = 1
                /\ calls[1] # NoCall
                /\ calls[1].ok => response = published(None)
            [] OTHER ->
                /\ pc = "write"
                /\ response = None
                /\ lints = 0

\* C15 witness: a didOpen of version MaxVersion was published
C15_Witness ==
    /\ EnteredNotification
    /\ prev.tag = "Initialised"
    /\ message[1].notification.method.name = "textDocument/didOpen"
    /\ message[1].notification.method.params.version = MaxVersion
    /\ calls[1].ok
    /\ response # None

\* C16: when the linter fails during a textDocument/diagnostic request, the
\* request is answered with the error -32603 "Failed to generate
\* diagnostics" and the request's id, the process does not crash and the
\* state stays Initialised.
C16_LintFailureAnswered ==
    (Entered /\ message[1].kind = "Request"
        /\ prev.tag = "Initialised"
        /\ message[1].request.method.name = "textDocument/diagnostic"
        /\ ~calls[1].ok)
    => /\ pc = "write"
       /\ IsResponse
       /\ IsError(TheResponse, -32603, "Failed to generate diagnostics")
       /\ TheResponse.id = message[1].request.id
       /\ state = prev

\* MessageHandler::pull_diagnostics answers Err(_) of the linter with the
\* error -32603 and keeps the state.
HandlerLintErrAnswered ==
    (Entered /\ message[1].kind = "Request"
        /\ prev.tag = "Initialised"
        /\ message[1].request.method.name = "textDocument/diagnostic"
        /\ ~calls[1].ok /\ ~calls[1].panic)
    => /\ pc = "write"
       /\ IsResponse
       /\ IsError(TheResponse, -32603, "Failed to generate diagnostics")
       /\ TheResponse.id = message[1].request.id
       /\ state = prev

\* C17: every successful textDocument/diagnostic request has called the
\* linter for itself and carries a Full report with the resultId "result"
\* and the linter's diagnostics; no response carries an Unchanged report.
C17_AlwaysFullReport ==
    (Handled /\ message[1].kind \in {"Request", "BatchRequest"})
    => /\ IsResponse
       /\ \A i \in 1..Len(ResponsesOf(TheResponse)) :
            LET r == ResponsesOf(TheResponse)[i]
                request == IF message[1].kind = "Request"
                           THEN message[1].request ELSE message[1].requests[i]
            IN (r.variant = "Success"
                    /\ request.method.name = "textDocument/diagnostic")
               => /\ calls[i] # NoCall
                  /\ calls[i].ok
                  /\ r.result.variant = "PullDiagnostics"
                  /\ r.result.value.kind = "full"
                  /\ r.result.value.result_id = "result"
                  /\ r.result.value.items = calls[i].diagnostics
       /\ \A i \in 1..Len(ResponsesOf(TheResponse)) :
            LET r == ResponsesOf(TheResponse)[i]
            IN (r.variant = "Success" /\ r.result.variant = "PullDiagnostics")
               => r.result.value.kind # "unchanged"

\* C17 witness: two pulls of the same URI in one batch, both answered
C17_Witness ==
    /\ HandledBatch
    /\ Len(message[1].requests) = 2
    /\ message[1].requests[1].method = message[1].requests[2].method
    /\ lints = 2
    /\ TheResponse.responses[1].variant = "Success"
    /\ TheResponse.responses[2].variant = "Success"

\* C18: every request frame the server receives is eventually followed by a
\* response on the output channel: once the client has written a frame that
\* carries a request, a call of Writer::write for a response is eventually
\* made, also when the client then only waits.
C18_EveryRequestAnswered ==
    (Len(sent) >= 1 /\ WellFormed(sent[1]) /\ FrameMessage(sent[1]).kind = "Request")
        ~> (output # <<>>)

C20_OneFramePerRead ==
    (ioPc = "dispatch" /\ nread <= Len(sent)
        /\ \A k \in 1..Len(sent) : WellFormed(sent[k]) /\ sent[k].hdr = "CL")
    => /\ result = Some(Ok(FrameMessage(sent[nread])))
       /\ consumed = FrameTokens(sent[nread], nread)

\* Reader::read returns the message of a frame that starts with
\* Content-Length and is followed by a newline or by the end of the channel,
\* and then has taken that frame's bytes only.
ReaderLineDelimited ==
    (ioPc = "dispatch" /\ nread <= Len(sent)
        /\ \A k \in 1..Len(sent) :
                /\ WellFormed([sent[k] EXCEPT !.nl = FALSE])
                /\ sent[k].hdr # "CT_CL"
                /\ sent[k].nl \/ (k = Len(sent) /\ eof /\ input = <<>>))
    => /\ result = Some(Ok(FrameMessage(sent[nread])))
       /\ consumed = FrameTokens(sent[nread], nread)

\* main has matched the result of this iteration's read: the handler has
\* returned or panicked, or the read error has been turned into a response
Dispatched == pc \in {"write", "exited", "panicked"} /\ (message # None \/ readError # None)

\* the methods of the requests of the message of this iteration
RequestMethodsOf(msg) ==
    CASE msg.kind = "Request" -> {msg.request.method.name}
      [] msg.kind = "BatchRequest" ->
            {msg.requests[i].method.name : i \in 1..Len(msg.requests)}
      [] OTHER -> {}

\* C29: the session state is changed only by an accepted initialize (from
\* Uninitialised to Initialised) and an accepted shutdown (from Initialised
\* to Shutdown): a message without such a request (a textDocument/diagnostic
\* request whatever the linter does, a notification, a Response) and a read
\* error leave the state as it was.
C29_StateFrame ==
    Dispatched
    => /\ readError # None => state = prev
       /\ (message # None /\ message[1].kind \in {"Notification", "Response"})
          => state = prev
       /\ (message # None /\ message[1].kind \in {"Request", "BatchRequest"})
          => /\ (prev.tag = "Uninitialised" /\ "initialize" \notin RequestMethodsOf(message[1]))
                => state = prev
             /\ (prev.tag = "Initialised" /\ "shutdown" \notin RequestMethodsOf(message[1]))
                => state = prev
             /\ prev.tag = "Shutdown" => state = prev
             /\ state # prev
                => \/ prev.tag = "Uninitialised" /\ state.tag \in {"Initialised", "Shutdown"}
                   \/ prev.tag = "Initialised" /\ state.tag = "Shutdown"

\* C29 witness: in the Initialised state a pull whose linter call failed has
\* been answered and the state is as before
C29_Witness ==
    /\ HandledRequest
    /\ prev.tag = "Initialised"
    /\ message[1].request.method.name = "textDocument/diagnostic"
    /\ TheResponse.variant = "Error"
    /\ state = prev

\* C30: in the Uninitialised and Shutdown states a notification other than
\* exit has no effect: handle returns nothing to write, the linter is not
\* called, the process goes on and the state is as before.
C30_NotificationsIgnored ==
    (EnteredNotification /\ prev.tag \in {"Uninitialised", "Shutdown"}
        /\ message[1].notification.method.name # "exit")
    => /\ pc = "write"
       /\ response = None
       /\ lints = 0
       /\ \A i \in DOMAIN calls : calls[i] = NoCall
       /\ state = prev

\* C30 witness: a didOpen has been handled after the shutdown
C30_Witness ==
    /\ EnteredNotification
    /\ prev.tag = "Shutdown"
    /\ message[1].notification.method.name = "textDocument/didOpen"
    /\ pc = "write"

\* Reader::parse has returned for the body decIn
Decoded == decIn # None /\ decOut # None

RequestMethodNames == {m.name : m \in RequestMethod}
NotificationMethodNames == {m.name : m \in NotificationMethod}

\* C22: a body that is valid JSON but no Message fails with InvalidRequest
\* carrying the id member of the body (Null when it has none) and the code
\* InvalidRequest; a body that is not JSON fails with the id Null and the
\* code ParseError.
C22_DecodeErrorClassified ==
    Decoded
    => /\ decIn[1].type = "invalid"
          => decOut[1] = Err(ReadError_InvalidRequest([Null |-> TRUE], "ParseError"))
       /\ (decIn[1].type # "invalid" /\ Message_deserialize(decIn[1]) = None)
          => decOut[1] = Err(ReadError_InvalidRequest(
                                IF decIn[1].type = "object" /\ decIn[1].id # None
                                THEN decIn[1].id[1] ELSE [Null |-> TRUE],
                                "InvalidRequest"))

\* Reader::parse answers every body that does not deserialise, JSON or not,
\* with InvalidRequest, the id Null and the code InvalidRequest.
ParseErrorsAllAlike ==
    (Decoded /\ Message_deserialize(decIn[1]) = None)
    => decOut[1] = Err(ReadError_InvalidRequest([Null |-> TRUE], "InvalidRequest"))

\* C26: requests and notifications are told apart by the id member alone: an
\* object with an id is never decoded as a Notification, an object without
\* an id is never decoded as a Request, and an array is decoded as a
\* BatchRequest or not at all.
C26_IdSeparatesShapes ==
    (Decoded /\ decOut[1].ok)
    => /\ (decIn[1].type = "object" /\ decIn[1].id # None)
          => decOut[1].value.kind # "Notification"
       /\ (decIn[1].type = "object" /\ decIn[1].id = None)
          => decOut[1].value.kind # "Request"
       /\ decIn[1].type = "array" => decOut[1].value.kind = "BatchRequest"

C21_OneErrorPerBadHeader ==
    (ioPc = "dispatch" /\ consumed # <<>> /\ sent[consumed[1].f].hdr = "BOGUS")
    => /\ consumed[1].t = "BOGUS"
       /\ ~result[1].ok
       /\ Response_from(result[1].error).id = [Null |-> TRUE]
       /\ Response_from(result[1].error).error.code = "InvalidRequest"

\* the frame is one the reader answers with an error: a malformed header
\* block, or a body that is not JSON
BadFrame(frame) == frame.hdr = "BOGUS" \/ frame.body = Some(InvalidJson)

\* C23: a framing or decoding error does not cost the connection: after a
\* bad frame has had its error, the well-formed frame that follows it is
\* what the second call of Reader::read returns, to be dispatched.
C23_RecoversAfterBadFrame ==
    (ioPc = "dispatch" /\ nread = 2 /\ Len(sent) = 2 /\ eof
        /\ BadFrame(sent[1]) /\ WellFormed(sent[2]))
    => /\ result = Some(Ok(FrameMessage(sent[2])))
       /\ consumed = FrameTokens(sent[2], 2)

\* C25: an I/O failure is fatal on both sides: once a write of the writer
\* has failed, or a read of the reader, the loop is over.
C25_IoFailureFatal ==
    (\E i \in 1..Len(output) : output[i].chunks < 4) => ioPc \in {"exited", panicked}

\* a failure of the read side ends the loop: read_line(..).unwrap() panics
ReadFailureFatal ==
    ioPc = panicked => ~ENABLED (Reader_read \/ Main_dispatch \/ Main_write)

\* C28: the header block may give Content-Length and Content-Type in either
\* order: a frame sent alone with both headers is returned as its message,
\* whichever comes first; a header block without Content-Length is refused.
C28_HeaderOrderIrrelevant ==
    (ioPc = "dispatch" /\ nread = 1 /\ Len(sent) = 1)
    => /\ WellFormed(sent[1]) => result = Some(Ok(FrameMessage(sent[1])))
       /\ sent[1].hdr = "BOGUS" => ~result[1].ok

\* Reader::headers takes both orders when it is given the whole block, and
\* a frame with Content-Length first is returned as its message
HeadersPermutation ==
    /\ \A k \in 1..Len(sent) :
            sent[k].hdr \in {"CL_CT", "CT_CL"}
            => /\ Reader_headers(FrameTokens(sent[k], k)).ok
               /\ Reader_parse(FrameTokens(sent[k], k))
                    = Reader_parse(FrameTokens([sent[k] EXCEPT !.hdr = "CL"], k))
    /\ (ioPc = "dispatch" /\ nread = 1 /\ Len(sent) = 1
            /\ WellFormed(sent[1]) /\ sent[1].hdr # "CT_CL")
       => result = Some(Ok(FrameMessage(sent[1])))

C34_BatchNeverEmpty ==
    (Decoded /\ decOut[1].ok /\ decOut[1].value.kind = "BatchRequest")
    => /\ decIn[1].elements # <<>>
       /\ decOut[1].value.requests # <<>>

\* a BatchRequest has as many requests as the array had elements
BatchKeepsLength ==
    (Decoded /\ decOut[1].ok /\ decOut[1].value.kind = "BatchRequest")
    => Len(decOut[1].value.requests) = Len(decIn[1].elements)

\* C36: when the linter fails for a didOpen or didSave notification handled
\* in the Initialised state, handle returns nothing to write, the state
\* stays Initialised and the loop goes on to the next message.
C36_PublishFailureSilent ==
    (EnteredNotification /\ prev.tag = "Initialised"
        /\ message[1].notification.method.name
            \in {"textDocument/didOpen", "textDocument/didSave"}
        /\ ~calls[1].ok)
    => /\ response = None
       /\ state = prev
       /\ pc = "write"

\* MessageHandler::publish_diagnostics drops Err(_) of the linter: nothing
\* is returned and the state is kept.
HandlerPublishErrDropped ==
    (EnteredNotification /\ prev.tag = "Initialised"
        /\ message[1].notification.method.name
            \in {"textDocument/didOpen", "textDocument/didSave"}
        /\ ~calls[1].ok /\ ~calls[1].panic)
    => /\ response = None
       /\ state = prev
       /\ pc = "write"

\* the state a request of the given method leaves behind
TagAfter(tag, method) ==
    IF tag = "Uninitialised" /\ method = "initialize" THEN "Initialised"
    ELSE IF tag = "Initialised" /\ method = "shutdown" THEN "Shutdown"
    ELSE tag

\* the state the i-th request of a batch meets
RECURSIVE TagBefore(_, _, _)
TagBefore(tag, requests, i) ==
    IF i = 1 THEN tag
    ELSE TagAfter(TagBefore(tag, requests, i - 1), requests[i - 1].method.name)

\* C37: the linter is called only in the Initialised state and once per
\* triggering message: for a textDocument/diagnostic request, a didOpen and
\* a didSave notification that meet the Initialised state, and for nothing
\* else (in a batch, for every such request the iterator reaches).
C37_LintOncePerTrigger ==
    Dispatched
    => /\ readError # None => lints = 0
       /\ (message # None /\ message[1].kind = "Request")
          => /\ calls[1] # NoCall
                <=> /\ prev.tag = "Initialised"
                    /\ message[1].request.method.name = "textDocument/diagnostic"
             /\ lints = IF calls[1] # NoCall THEN 1 ELSE 0
       /\ (message # None /\ message[1].kind = "Notification")
          => /\ calls[1] # NoCall
                <=> /\ prev.tag = "Initialised"
                    /\ message[1].notification.method.name
                        \in {"textDocument/didOpen", "textDocument/didSave"}
             /\ lints = IF calls[1] # NoCall THEN 1 ELSE 0
       /\ (message # None /\ message[1].kind = "Response")
          => calls[1] = NoCall /\ lints = 0
       /\ (message # None /\ message[1].kind = "BatchRequest")
          => /\ \A i \in 1..Len(message[1].requests) :
                    calls[i] # NoCall
                    <=> /\ TagBefore(prev.tag, message[1].requests, i) = "Initialised"
                        /\ message[1].requests[i].method.name = "textDocument/diagnostic"
                        /\ \A j \in 1..(i - 1) : ~calls[j].panic
             /\ lints = Cardinality({i \in DOMAIN calls : calls[i] # NoCall})

\* C37 witness: a batch of initialize and textDocument/diagnostic met the
\* Uninitialised state, and the linter was called for the second request only
C37_Witness ==
    /\ HandledBatch
    /\ prev.tag = "Uninitialised"
    /\ Len(message[1].requests) = 2
    /\ message[1].requests[1].method.name = "initialize"
    /\ message[1].requests[2].method.name = "textDocument/diagnostic"
    /\ calls[1] = NoCall
    /\ calls[2] # NoCall
    /\ lints = 1

\* the parameters of the first initialize request of the message
FirstInitialiseParams(msg) ==
    IF msg.kind = "Request" THEN msg.request.method.params
    ELSE LET k == CHOOSE i \in 1..Len(msg.requests) :
                    /\ msg.requests[i].method.name = "initialize"
                    /\ \A j \in 1..(i - 1) : msg.requests[j].method.name # "initialize"
         IN msg.requests[k].method.params

\* C38: the parameters in the Initialised state are those of the initialize
\* request that was accepted: a message that meets the Initialised state and
\* leaves it Initialised leaves the parameters, and the message that led
\* from Uninitialised to Initialised left those of its first initialize.
C38_ParamsKept ==
    (Dispatched /\ state.tag = "Initialised")
    => /\ prev.tag \in {"Uninitialised", "Initialised"}
       /\ prev.tag = "Initialised" => state.params = prev.params
       /\ prev.tag = "Uninitialised"
          => /\ message # None
             /\ "initialize" \in RequestMethodsOf(message[1])
             /\ state.params = FirstInitialiseParams(message[1])

\* C38 witness: a second initialize with other parameters was refused and
\* the parameters are those of the first
C38_Witness ==
    /\ HandledRequest
    /\ prev = State_Initialised("p1")
    /\ message[1].request.method.name = "initialize"
    /\ message[1].request.method.params = "p2"
    /\ TheResponse.variant = "Error"
    /\ state = State_Initialised("p1")

\* CfnLinter::lint has returned diagnostics for the finding lintOutput
Linted == lintOutput # None /\ lintResult # None /\ ~lintResult[1].panic

\* C35: a finding the linter reports at line L, column C, both at least 1,
\* becomes a diagnostic whose range starts at line L - 1, character C - 1.
C35_PositionsZeroBased ==
    (Linted /\ decimal(lintOutput[1].line) >= 1 /\ decimal(lintOutput[1].column) >= 1)
    => /\ Len(lintResult[1].diagnostics) = 1
       /\ lintResult[1].diagnostics[1].range.start
            = [line |-> decimal(lintOutput[1].line) - 1,
               character |-> decimal(lintOutput[1].column) - 1]

\* the range of a diagnostic starts and ends at the line and column the
\* linter printed
RangeAsPrinted ==
    Linted
    => /\ Len(lintResult[1].diagnostics) = 1
       /\ lintResult[1].diagnostics[1].range.start
            = [line |-> decimal(lintOutput[1].line),
               character |-> decimal(lintOutput[1].column)]
       /\ lintResult[1].diagnostics[1].range.end = lintResult[1].diagnostics[1].range.start

\* C31: the reader returns a frame as soon as it has arrived in full: with
\* one well-formed frame sent (its body without line end) and bytes of it
\* still to take, the call of Reader::read is not blocked.
C31_ReturnsCompleteFrame ==
    (ioPc = "read" /\ nread = 0 /\ Len(sent) = 1 /\ WellFormed(sent[1]) /\ input # <<>>)
    => ENABLED Reader_read

\* C32: the writer flushes after each frame: once Writer::write has
\* returned Ok for a response, none of the bytes it wrote is left in a buffer.
C32_FlushedAfterWrite ==
    (output # <<>> /\ output[Len(output)].chunks = 4) => Stdout_buffer(output) = <<>>

\* whatever Writer::write wrote before the last line end has reached the
\* channel: the header blocks of all frames and the bodies of all but the
\* last
HeadersReachChannel ==
    (output # <<>> /\ \A i \in 1..Len(output) : output[i].chunks = 4)
    => Stdout_buffer(output) = into_bytes(to_string(output[Len(output)].response))

\* the calls of Writer::write that returned Ok
CompleteWrites(out) == SelectSeq(out, LAMBDA w : w.chunks = 4)

\* C33: a failed write leaves no partial frame: the bytes on the output
\* channel are those of the frames Writer::write wrote in full.
C33_NoPartialFrame == Channel(output) = Channel(CompleteWrites(output))

\* C39: at the end of the input the loop is over: a call of Reader::read
\* that finds the channel closed and empty does not hand a result to main.
C39_EndOfStreamTerminates ==
    [][(Reader_read /\ eof /\ input = <<>>) => ioPc' \notin {"read", "dispatch"}]_vars

\* the thread has answered the single request it was given
SrvAnswered(t) ==
    /\ srvPc[t] = "done"
    /\ srvMsg[t] # None
    /\ srvMsg[t][1].kind = "Request"
    /\ Len(srvResps[t]) = 1

\* C40: in the Server shared between threads the lifecycle transitions are
\* atomic: a request is matched against the state as it is, not against one
\* that another thread has replaced since, and of two initialize requests
\* that meet the Uninitialised state at most one succeeds.
C40_TransitionsAtomic ==
    /\ \A t \in Threads : srvPc[t] = "locked" => srvSnap[t] = srvState
    /\ \A t, u \in Threads :
            (t # u /\ SrvAnswered(t) /\ SrvAnswered(u)
                /\ srvMsg[t][1].request.method.name = "initialize"
                /\ srvMsg[u][1].request.method.name = "initialize"
                /\ srvSnap[t].tag = "Uninitialised" /\ srvSnap[u].tag = "Uninitialised")
            => ~(srvResps[t][1].variant = "Success" /\ srvResps[u][1].variant = "Success")

\* the state behind the mutex is replaced only under the lock, one
\* assignment at a time, and never leaves Shutdown
ServerStateGuarded ==
    [][srvState' # srvState
        => /\ \E t \in Threads : srvPc[t] = "locked" /\ srvPc'[t] # "locked"
           /\ srvState.tag # "Shutdown" \/ srvState'.tag # "Uninitialised"]_vars

====
